---- MODULE Spec2Model ----
(***************************************************************************)
(* A model of the pomagam import pipeline: field parsers (parser.py), the  *)
(* assembly / validation / output pipeline of main(), the snapshot diff    *)
(* (diff_cache) and the translation reconciliation (filter_translation,    *)
(* update_poi_translation) of main.py.                                     *)
(*                                                                         *)
(* Python values are records [k, s, n, l]: k is the type tag, s the text   *)
(* of a str (a sequence of one-character tokens; an HTML tag is one        *)
(* token), n the number of an int / bool, or of a float in ten-thousandths *)
(* of a unit, l the elements of a list.                                    *)
(***************************************************************************)
EXTENDS Integers, Sequences, FiniteSets, TLC

VARIABLES
    \* main(): the pipeline of one run
    upstream, raw_markers, markers, idx, all_pois, invalid_markers,
    verified_pois, files, cat_idx, pc, exc,
    \* diff_cache() over successive runs
    cache_file, pois_in, same, prev_wrote, cache, diff, dpc, wrote, prev_file,
    \* filter_translation() and update_poi_translation()
    tr_pois, tr_cache, tr_rows, tr_diff, tr_filtered, tr_before, tpc

vars_main == <<upstream, raw_markers, markers, idx, all_pois, invalid_markers,
               verified_pois, files, cat_idx, pc, exc>>
vars_diff == <<cache_file, pois_in, same, prev_wrote, cache, diff, dpc, wrote,
               prev_file>>
vars_tr == <<tr_pois, tr_cache, tr_rows, tr_diff, tr_filtered, tr_before, tpc>>
vars == <<vars_main, vars_diff, vars_tr>>

----------------------------------------------------------------------------
(* Python values *)

None == [k |-> "none", s |-> <<>>, n |-> 0, l |-> <<>>]
Str(s) == [k |-> "str", s |-> s, n |-> 0, l |-> <<>>]
PyInt(n) == [k |-> "int", s |-> <<>>, n |-> n, l |-> <<>>]
Float(n) == [k |-> "float", s |-> <<>>, n |-> n, l |-> <<>>]
Bool(b) == [k |-> "bool", s |-> <<>>, n |-> IF b THEN 1 ELSE 0, l |-> <<>>]
List(l) == [k |-> "list", s |-> <<>>, n |-> 0, l |-> l]

\* degrees (and a fraction in ten-thousandths) as the model's float
Deg(d, frac) == d * 10000 + frac

\* Python truthiness: `not value`
Falsy(v) ==
    \/ v.k = "none"
    \/ v.k = "str" /\ v.s = <<>>
    \/ v.k \in {"int", "float", "bool"} /\ v.n = 0
    \/ v.k = "list" /\ v.l = <<>>

Digits == <<"0", "1", "2", "3", "4", "5", "6", "7", "8", "9">>
IsDigit(c) == \E i \in 1..Len(Digits) : Digits[i] = c
DigitVal(c) == (CHOOSE i \in 1..Len(Digits) : Digits[i] = c) - 1
Whitespace == {" ", "\t", "\n"}
Tags == {"<b>", "</b>", "<br>", "<div>", "</div>", "<ul>", "</ul>", "<li>", "</li>"}

UpperCase == <<"A", "E", "I", "K", "N", "T", "Z">>
LowerCase == <<"a", "e", "i", "k", "n", "t", "z">>
\* str.lower() on one character
Lower(c) ==
    IF \E i \in 1..Len(UpperCase) : UpperCase[i] = c
    THEN LowerCase[CHOOSE i \in 1..Len(UpperCase) : UpperCase[i] = c]
    ELSE c

RECURSIVE IntStr(_)
\* str(int)
IntStr(n) ==
    IF n < 0 THEN <<"-">> \o IntStr(-n)
    ELSE IF n < 10 THEN <<Digits[n + 1]>>
    ELSE IntStr(n \div 10) \o <<Digits[(n % 10) + 1]>>

RECURSIVE DropTrailingZeros(_)
DropTrailingZeros(s) ==
    IF Len(s) > 1 /\ s[Len(s)] = "0" THEN DropTrailingZeros(SubSeq(s, 1, Len(s) - 1))
    ELSE s

\* str(float), for a float of at most four decimals
FloatStr(n) ==
    LET a == IF n < 0 THEN -n ELSE n
        f == a % 10000
        pad == <<Digits[(f \div 1000) + 1], Digits[((f \div 100) % 10) + 1],
                 Digits[((f \div 10) % 10) + 1], Digits[(f % 10) + 1]>>
    IN  (IF n < 0 THEN <<"-">> ELSE <<>>) \o IntStr(a \div 10000) \o <<".">>
        \o DropTrailingZeros(pad)

RECURSIVE JoinQuoted(_)
JoinQuoted(l) ==
    IF l = <<>> THEN <<>>
    ELSE <<"'", Head(l), "'">>
         \o (IF Len(l) > 1 THEN <<",", " ">> ELSE <<>>) \o JoinQuoted(Tail(l))

\* str(value)
PyStr(v) ==
    CASE v.k = "str" -> v.s
      [] v.k = "int" -> IntStr(v.n)
      [] v.k = "float" -> FloatStr(v.n)
      [] v.k = "bool" -> IF v.n = 1 THEN <<"T", "r", "u", "e">>
                         ELSE <<"F", "a", "l", "s", "e">>
      [] v.k = "list" -> <<"[">> \o JoinQuoted(v.l) \o <<"]">>
      [] OTHER -> <<"N", "o", "n", "e">>

RECURSIVE LStrip(_)
LStrip(s) == IF s # <<>> /\ Head(s) \in Whitespace THEN LStrip(Tail(s)) ELSE s
RECURSIVE RStrip(_)
RStrip(s) ==
    IF s # <<>> /\ s[Len(s)] \in Whitespace THEN RStrip(SubSeq(s, 1, Len(s) - 1))
    ELSE s
\* str.strip()
Strip(s) == RStrip(LStrip(s))

IsWs(c) == c \in Whitespace
IsTag(c) == c \in Tags
NotWs(c) == ~IsWs(c)
NotTag(c) == ~IsTag(c)

RECURSIVE MapLower(_)
MapLower(s) == IF s = <<>> THEN <<>> ELSE <<Lower(Head(s))>> \o MapLower(Tail(s))

RECURSIVE DigitsVal(_)
\* the number a sequence of digits denotes
DigitsVal(s) ==
    IF s = <<>> THEN 0 ELSE DigitsVal(SubSeq(s, 1, Len(s) - 1)) * 10 + DigitVal(s[Len(s)])

AllDigits(s) == \A i \in 1..Len(s) : IsDigit(s[i])

\* the fraction digits of a numeral, in ten-thousandths (further digits are
\* below the model's resolution)
FracVal(s) ==
    LET d(i) == IF i <= Len(s) THEN DigitVal(s[i]) ELSE 0
    IN  d(1) * 1000 + d(2) * 100 + d(3) * 10 + d(4)

\* float(str): surrounding whitespace, a sign, digits, a point, digits
ParseFloatStr(s) ==
    LET t == Strip(s)
        neg == t # <<>> /\ Head(t) = "-"
        u == IF t # <<>> /\ Head(t) \in {"-", "+"} THEN Tail(t) ELSE t
        dots == {i \in 1..Len(u) : u[i] = "."}
        p == IF dots = {} THEN Len(u) + 1 ELSE CHOOSE i \in dots : \A j \in dots : i <= j
        ip == SubSeq(u, 1, p - 1)
        fp == SubSeq(u, p + 1, Len(u))
        ok == /\ Cardinality(dots) <= 1
              /\ AllDigits(ip) /\ AllDigits(fp)
              /\ Len(ip) + Len(fp) > 0
        a == DigitsVal(ip) * 10000 + FracVal(fp)
    IN  IF ok THEN [st |-> "ok", n |-> IF neg THEN -a ELSE a]
        ELSE [st |-> "ValueError", n |-> 0]

\* float(value)
PyFloat(v) ==
    CASE v.k = "float" -> [st |-> "ok", n |-> v.n]
      [] v.k \in {"int", "bool"} -> [st |-> "ok", n |-> v.n * 10000]
      [] v.k = "str" -> ParseFloatStr(v.s)
      [] OTHER -> [st |-> "TypeError", n |-> 0]

\* bleach.clean(value, strip=True): the markup is removed, the text kept
Clean(v) ==
    IF v.k = "str" THEN [st |-> "ok", v |-> Str(SelectSeq(v.s, NotTag)), msg |-> ""]
    ELSE [st |-> "TypeError", v |-> None, msg |-> "argument must be of text type"]

Ok(v) == [st |-> "ok", v |-> v, msg |-> ""]
ValueError(msg) == [st |-> "ValueError", v |-> None, msg |-> msg]
Raise(st, msg) == [st |-> st, v |-> None, msg |-> msg]

----------------------------------------------------------------------------
(* parser.py: class Parser *)

CATEGORIES ==
    [c \in {"1", "2", "3", "4", "5", "6", "7", "8", "9"} |->
        CASE c = "1" -> "charityDropOff"
          [] c = "2" -> "accommodation"
          [] c = "3" -> "govermentCharity"
          [] c = "4" -> "psychologicalAssistance"
          [] c = "5" -> "legalAssistance"
          [] c = "6" -> "medicalAssistance"
          [] c = "7" -> "animalAssistance"
          [] c = "8" -> "childcare"
          [] c = "9" -> "transport"]

\* CATEGORIES.values(), in the order of the dict
CategoryOrder ==
    <<"charityDropOff", "accommodation", "govermentCharity",
      "psychologicalAssistance", "legalAssistance", "medicalAssistance",
      "animalAssistance", "childcare", "transport">>

\* a category name as the text of a Python str
CategoryStr(name) == Str(<<name>>)

parse_id(value) ==
    IF Falsy(value) THEN ValueError("ID cannot be empty!")
    ELSE Ok(Str(PyStr(value)))

parse_category(value) ==
    IF value.k # "list" THEN ValueError("Unexpected category data type")
    ELSE IF Len(value.l) > 1 THEN ValueError("Unexpected multiple categories")
    ELSE IF Len(value.l) = 0 THEN Ok(CategoryStr(CATEGORIES["1"]))
    ELSE IF value.l[1] \in DOMAIN CATEGORIES THEN Ok(CategoryStr(CATEGORIES[value.l[1]]))
    ELSE ValueError("Unexpected category ID")

TRUE_VALUES ==
    { <<"t", "a", "k">>,
      <<"z", "w", "e", "r", "y", "f", "i", "k", "o", "w", "a", "n", "y">>,
      <<"z", "w", "e", "r", "y", "f", "i", "k", "o", "w", "a", "n", "e">>,
      <<"z", "w", "e", "r", "y", "f", "i", "k", "o", "w", "a", "n", "a">>,
      <<"z", "w", "e", "r", "y", "f", "i", "k", "o", "w", "a", "n", "o">> }

FALSE_VALUES ==
    { <<"n", "i", "e">>,
      <<"n", "i", "e", "z", "w", "e", "r", "y", "f", "i", "k", "o", "w", "a", "n", "y">>,
      <<"n", "i", "e", "z", "w", "e", "r", "y", "f", "i", "k", "o", "w", "a", "n", "a">>,
      <<"n", "i", "e", "z", "w", "e", "r", "y", "f", "i", "k", "o", "w", "a", "n", "e">>,
      <<"n", "i", "e", "z", "w", "e", "r", "y", "f", "i", "k", "o", "w", "a", "n", "o">> }

\* ''.join(value.strip().split()).lower()
CleanVerified(s) == MapLower(SelectSeq(Strip(s), NotWs))

parse_verified(value) ==
    IF Falsy(value) THEN Ok(Bool(FALSE))
    ELSE IF value.k # "str" THEN Raise("AttributeError", "no attribute 'strip'")
    ELSE IF CleanVerified(value.s) \in TRUE_VALUES THEN Ok(Bool(TRUE))
    ELSE IF CleanVerified(value.s) \in FALSE_VALUES THEN Ok(Bool(FALSE))
    ELSE ValueError("Unexpected verified value")

LatMin == 45
LatMax == 56
LngMin == 12
LngMax == 30

parse_lat_inclusive(value) ==
    LET lat == PyFloat(value)
    IN  IF lat.st # "ok"
        THEN Raise(lat.st, "could not convert to float")
        ELSE IF ~(Deg(LatMin, 0) <= lat.n /\ lat.n <= Deg(LatMax, 0))
        THEN ValueError("Suspicious latitude")
        ELSE Ok(Float(lat.n))

parse_lat(value) ==
    LET lat == PyFloat(value)
    IN  IF lat.st # "ok"
        THEN Raise(lat.st, "could not convert to float")
        ELSE IF ~(Deg(LatMin, 0) < lat.n /\ lat.n < Deg(LatMax, 0))
        THEN ValueError("Suspicious latitude")
        ELSE Ok(Float(lat.n))

parse_lng(value) ==
    LET lng == PyFloat(value)
    IN  IF lng.st # "ok"
        THEN Raise(lng.st, "could not convert to float")
        ELSE IF ~(Deg(LngMin, 0) < lng.n /\ lng.n < Deg(LngMax, 0))
        THEN ValueError("Suspicious longitude")
        ELSE Ok(Float(lng.n))

parse_name(value) ==
    IF Falsy(value) THEN ValueError("Name cannot be empty!")
    ELSE Clean(value)

RECURSIVE TextContent(_)
\* lxml: a newline after every div / br, "\n- " before the text of every li
\* (a bare newline for an li without text), then text_content()
TextContent(s) ==
    IF s = <<>> THEN <<>>
    ELSE LET c == Head(s)
         IN  CASE c \in {"<br>", "</div>"} -> <<"\n">> \o TextContent(Tail(s))
               [] c = "<li>" ->
                    (IF Len(s) > 1 /\ ~IsTag(s[2]) THEN <<"\n", "-", " ">> ELSE <<"\n">>)
                    \o TextContent(Tail(s))
               [] IsTag(c) -> TextContent(Tail(s))
               [] OTHER -> <<c>> \o TextContent(Tail(s))

RECURSIVE FixLists(_)
\* value.replace(', -', ',\n-')
FixLists(s) ==
    IF Len(s) < 3 THEN s
    ELSE IF SubSeq(s, 1, 3) = <<",", " ", "-">>
         THEN <<",", "\n", "-">> \o FixLists(SubSeq(s, 4, Len(s)))
         ELSE <<Head(s)>> \o FixLists(Tail(s))

parse_description(value) ==
    IF Falsy(value) THEN Ok(None)
    ELSE IF value.k # "str" THEN Clean(value)
    ELSE Clean(Str(FixLists(TextContent(value.s))))

parse_phone(value) == IF Falsy(value) THEN Ok(None) ELSE Clean(value)

parse_addr(value) == IF Falsy(value) THEN Ok(None) ELSE Clean(value)

parse_website(value) == IF Falsy(value) THEN Ok(None) ELSE Ok(Str(PyStr(value)))

parse_opening_hours(value) == IF Falsy(value) THEN Ok(None) ELSE Clean(value)

----------------------------------------------------------------------------
(* main.py: assembly and validation *)

\* the keys of FIELD_PARSER
Fields == {"id", "category", "verified", "lat", "lng", "name", "description",
           "phone", "addr", "opening_hours", "website"}

\* FIELD_PARSER[key](value)
FIELD_PARSER(key, value) ==
    CASE key = "id" -> parse_id(value)
      [] key = "category" -> parse_category(value)
      [] key = "verified" -> parse_verified(value)
      [] key = "lat" -> parse_lat(value)
      [] key = "lng" -> parse_lng(value)
      [] key = "name" -> parse_name(value)
      [] key = "description" -> parse_description(value)
      [] key = "phone" -> parse_phone(value)
      [] key = "addr" -> parse_addr(value)
      [] key = "opening_hours" -> parse_opening_hours(value)
      [] key = "website" -> parse_website(value)

\* a key the raw marker does not have
Absent == [k |-> "absent", s |-> <<>>, n |-> 0, l |-> <<>>]
\* raw_marker.get(key, None)
Get(v) == IF v.k = "absent" THEN None ELSE v

RECURSIVE custom_to_dict(_)
\* {field['name']: field['value'] for field in custom_fields}: the last entry
\* of a name wins
custom_to_dict(custom_fields) ==
    IF custom_fields = <<>> THEN <<>>
    ELSE LET last == custom_fields[Len(custom_fields)]
             rest == custom_to_dict(SubSeq(custom_fields, 1, Len(custom_fields) - 1))
         IN  [nm \in (DOMAIN rest) \cup {last.name} |->
                 IF nm = last.name THEN last.value ELSE rest[nm]]

\* custom_field_data.get(key, None)
DictGet(d, key) == IF key \in DOMAIN d THEN d[key] ELSE None

\* one iteration of the loop of remap_filter_attributes
RemapMarker(raw_marker) ==
    LET custom_field_data == custom_to_dict(raw_marker.custom_field_data.fields)
    IN  [f \in Fields |->
            CASE f = "id" -> Get(raw_marker.id)
              [] f = "category" -> Get(raw_marker.categories)
              [] f = "name" -> Get(raw_marker.title)
              [] f = "addr" -> Get(raw_marker.address)
              [] f = "lat" -> Get(raw_marker.lat)
              [] f = "lng" -> Get(raw_marker.lng)
              [] f = "description" -> Get(raw_marker.description)
              [] f = "website" -> Get(raw_marker.link)
              [] f = "verified" -> DictGet(custom_field_data, "Czy zweryfikowany?")
              [] f = "phone" -> DictGet(custom_field_data, "Numer telefonu")
              [] f = "opening_hours" -> DictGet(custom_field_data, "Godziny otwarcia")]

\* the order of marker.items(): the order remap_filter_attributes inserts in
FieldOrder == <<"id", "category", "name", "addr", "lat", "lng", "description",
                "website", "verified", "phone", "opening_hours">>

\* the body of the loop of parse_pois for one marker: every field's parser
\* result; a ValueError is recorded, any other exception escapes
ParseMarkerFields(marker) == [f \in Fields |-> FIELD_PARSER(f, marker[f])]

Escaping(res) == {i \in 1..Len(FieldOrder) : res[FieldOrder[i]].st \notin {"ok", "ValueError"}}
FirstEscaping(res) == CHOOSE i \in Escaping(res) : \A j \in Escaping(res) : i <= j
ErrorsOf(res) ==
    [f \in {g \in Fields : res[g].st = "ValueError"} |-> res[f].msg]
PoiOf(res) == [f \in Fields |-> res[f].v]

----------------------------------------------------------------------------
(* main.py: output *)

\* pois_to_geojson
pois_to_geojson(pois) ==
    [type |-> "FeatureCollection",
     features |->
        [i \in 1..Len(pois) |->
            [type |-> "Feature",
             geometry |-> [type |-> "Point",
                           coordinates |-> <<pois[i]["lng"], pois[i]["lat"]>>],
             properties |-> [f \in (DOMAIN pois[i]) \ {"lng", "lat"} |-> pois[i][f]]]]]

IsVerified(poi) == ~Falsy(poi["verified"])
CategoryOf(poi) == poi["category"].s[1]

\* group_by_category: one bucket per category of the enumeration
group_by_category(pois) ==
    [c \in {CategoryOrder[i] : i \in 1..Len(CategoryOrder)} |->
        SelectSeq(pois, LAMBDA poi : CategoryOf(poi) = c)]

----------------------------------------------------------------------------
(* the upstream markers a run may be given *)

MaxMarkers == 2

T_Tak == <<"T", "a", "k">>
T_Nie == <<" ", "N", "I", "E", " ">>
T_TaK == <<"t", " ", "a", "\t", "K">>
T_Moze == <<"m", "o", "z", "e">>

Custom(name, value) == [name |-> name, value |-> value]
CustomFields(fields) == [present |-> TRUE, fields |-> fields]
NoCustomFields == [present |-> FALSE, fields |-> <<>>]
VerifiedField(value) == CustomFields(<<Custom("Czy zweryfikowany?", value)>>)

Raw(id, categories, title, lat, lng, custom) ==
    [id |-> id, categories |-> categories, title |-> title, address |-> Absent,
     lat |-> lat, lng |-> lng, description |-> Absent, link |-> Absent,
     custom_field_data |-> custom]

Good == Raw(Str(<<"1">>), List(<<"6">>), Str(<<"A">>), Float(Deg(52, 0)),
            Float(Deg(21, 0)), VerifiedField(Str(T_Tak)))

RawMarkers ==
    { Good,
      \* an int id, no category, numbers given as text, unverified
      Raw(PyInt(1), List(<<>>), Str(<<"B">>), Str(<<"4", "5", ".", "0", "0", "0", "1">>),
          Str(<<" ", "1", "2", ".", "0", "0", "0", "1">>), VerifiedField(Str(T_Nie))),
      \* every attribute given, markup in the texts, a repeated custom field
      [ Raw(Str(<<"2">>), List(<<"9">>), Str(<<"<b>", "C", "</b>">>),
            Float(Deg(55, 9999)), Float(Deg(29, 9999)),
            CustomFields(<<Custom("Czy zweryfikowany?", Str(T_Moze)),
                           Custom("Numer telefonu", Str(<<"5">>)),
                           Custom("Godziny otwarcia", Str(<<"8", "-", "9">>)),
                           Custom("Czy zweryfikowany?", Str(T_TaK))>>))
        EXCEPT !.address = Str(<<"u", "l">>),
               !.description = Str(<<"a", ",", " ", "-", "b", "<br>", "<li>", "c", "</li>">>),
               !.link = Str(<<"h">>) ],
      \* the bounds of the ranges
      [Good EXCEPT !.lat = Float(Deg(45, 0))],
      [Good EXCEPT !.lat = Float(Deg(56, 0))],
      [Good EXCEPT !.lng = Float(Deg(12, 0))],
      [Good EXCEPT !.lng = PyInt(30)],
      \* three failing fields
      [Good EXCEPT !.lat = Float(Deg(90, 0)), !.title = Str(<<>>),
                   !.categories = List(<<"1", "6">>)],
      \* two failing fields
      [Good EXCEPT !.id = Str(<<>>), !.lat = Str(<<"a", "b", "c">>)],
      [Good EXCEPT !.categories = List(<<"10">>)],
      [Good EXCEPT !.categories = Absent],
      [Good EXCEPT !.custom_field_data = VerifiedField(Str(T_Moze))],
      \* no verification field
      [Good EXCEPT !.id = Str(<<"3">>), !.custom_field_data = CustomFields(<<>>)],
      \* attributes missing, or of another type than expected
      [Good EXCEPT !.lat = Absent],
      [Good EXCEPT !.custom_field_data = NoCustomFields],
      [Good EXCEPT !.custom_field_data = VerifiedField(PyInt(1))] }

RECURSIVE SeqsUpTo(_, _)
\* the sequences over S of length at most n
SeqsUpTo(S, n) ==
    IF n = 0 THEN {<<>>}
    ELSE LET shorter == SeqsUpTo(S, n - 1)
         IN  shorter \cup {Append(q, x) : q \in {r \in shorter : Len(r) = n - 1}, x \in S}

----------------------------------------------------------------------------
(* main.py: main() *)

Untouched == [st |-> "untouched", content |-> <<>>]
Written(content) == [st |-> "written", content |-> content]
\* open(name, 'w') succeeded and json.dump raised: the file is cut short
Partial == [st |-> "partial", content |-> <<>>]

NoFiles ==
    [all |-> Untouched,
     category |-> [c \in {CategoryOrder[i] : i \in 1..Len(CategoryOrder)} |-> Untouched],
     invalid |-> Untouched,
     cache |-> Untouched,
     sheet |-> Untouched]

NoExc == [type |-> "", at |-> ""]
Exc(type, at) == [type |-> type, at |-> at]

\* what a write of main can do: complete, fail in open(), fail in json.dump()
WriteOutcomes == {"ok", "open", "dump"}
AfterWrite(outcome, content) ==
    CASE outcome = "ok" -> Written(content)
      [] outcome = "open" -> Untouched
      [] outcome = "dump" -> Partial

InitMain ==
    /\ upstream \in SeqsUpTo(RawMarkers, MaxMarkers)
    /\ raw_markers = <<>>
    /\ markers = <<>>
    /\ idx = 0
    /\ all_pois = <<>>
    /\ invalid_markers = <<>>
    /\ verified_pois = <<>>
    /\ files = NoFiles
    /\ cat_idx = 0
    /\ pc = "start"
    /\ exc = NoExc

Abort(type, at) ==
    /\ pc' = "aborted"
    /\ exc' = Exc(type, at)

\* line 256: download_markers(); a failed request or body propagates
Download ==
    /\ pc = "start"
    /\ \/ /\ raw_markers' = upstream
          /\ pc' = "downloaded"
          /\ exc' = exc
       \/ /\ Abort("RequestException", "download_markers")
          /\ raw_markers' = raw_markers
    /\ UNCHANGED <<upstream, markers, idx, all_pois, invalid_markers,
                   verified_pois, files, cat_idx>>
    /\ UNCHANGED <<vars_diff, vars_tr>>

\* line 258: remap_filter_attributes(raw_markers)
Remap ==
    /\ pc = "downloaded"
    /\ IF \E i \in 1..Len(raw_markers) : ~raw_markers[i].custom_field_data.present
       THEN /\ Abort("KeyError", "remap_filter_attributes")
            /\ UNCHANGED <<markers, idx>>
       ELSE /\ markers' = [i \in 1..Len(raw_markers) |-> RemapMarker(raw_markers[i])]
            /\ idx' = 1
            /\ pc' = "parse_pois"
            /\ exc' = exc
    /\ UNCHANGED <<upstream, raw_markers, all_pois, invalid_markers,
                   verified_pois, files, cat_idx>>
    /\ UNCHANGED <<vars_diff, vars_tr>>

\* lines 100-115: one marker of the loop of parse_pois
ParseMarker ==
    /\ pc = "parse_pois"
    /\ idx <= Len(markers)
    /\ LET marker == markers[idx]
           res == ParseMarkerFields(marker)
       IN  IF Escaping(res) # {}
           THEN /\ Abort(res[FieldOrder[FirstEscaping(res)]].st, "parse_pois")
                /\ UNCHANGED <<idx, all_pois, invalid_markers>>
           ELSE /\ IF DOMAIN ErrorsOf(res) # {}
                   THEN /\ invalid_markers' =
                              Append(invalid_markers, <<ErrorsOf(res), marker>>)
                        /\ all_pois' = all_pois
                   ELSE /\ all_pois' = Append(all_pois, PoiOf(res))
                        /\ invalid_markers' = invalid_markers
                /\ idx' = idx + 1
                /\ UNCHANGED <<pc, exc>>
    /\ UNCHANGED <<upstream, raw_markers, markers, verified_pois, files, cat_idx>>
    /\ UNCHANGED <<vars_diff, vars_tr>>

\* lines 117, 259-261: parse_pois returns, the verified pois are kept
FilterVerified ==
    /\ pc = "parse_pois"
    /\ idx > Len(markers)
    /\ verified_pois' = SelectSeq(all_pois, IsVerified)
    /\ pc' = "write_all"
    /\ UNCHANGED <<upstream, raw_markers, markers, idx, all_pois, invalid_markers,
                   files, cat_idx, exc>>
    /\ UNCHANGED <<vars_diff, vars_tr>>

\* lines 280-287: pomagam.geojson
WriteAll ==
    /\ pc = "write_all"
    /\ \E outcome \in WriteOutcomes :
          /\ files' = [files EXCEPT
                          !.all = AfterWrite(outcome, pois_to_geojson(verified_pois))]
          /\ IF outcome = "ok"
             THEN pc' = "write_category" /\ cat_idx' = 1 /\ exc' = exc
             ELSE Abort("OSError", "pomagam.geojson") /\ cat_idx' = cat_idx
    /\ UNCHANGED <<upstream, raw_markers, markers, idx, all_pois, invalid_markers,
                   verified_pois>>
    /\ UNCHANGED <<vars_diff, vars_tr>>

CategoryFilesButLast == SubSeq(CategoryOrder, 1, Len(CategoryOrder) - 1)

\* the categories main writes a file for: the keys of group_by_category's result
CategoryFiles == CategoryOrder

\* lines 290-297: one file of the loop over the categories
WriteCategory ==
    /\ pc = "write_category"
    /\ cat_idx <= Len(CategoryFiles)
    /\ LET category == CategoryFiles[cat_idx]
           pois == group_by_category(verified_pois)[category]
       IN  \E outcome \in WriteOutcomes :
              /\ files' = [files EXCEPT
                              !.category[category] = AfterWrite(outcome, pois_to_geojson(pois))]
              /\ IF outcome = "ok"
                 THEN cat_idx' = cat_idx + 1 /\ UNCHANGED <<pc, exc>>
                 ELSE Abort("OSError", "pomagam-category.geojson") /\ cat_idx' = cat_idx
    /\ UNCHANGED <<upstream, raw_markers, markers, idx, all_pois, invalid_markers,
                   verified_pois>>
    /\ UNCHANGED <<vars_diff, vars_tr>>

\* lines 301-306: pomagam_invalid.json
WriteInvalid ==
    /\ pc = "write_category"
    /\ cat_idx > Len(CategoryFiles)
    /\ \E outcome \in WriteOutcomes :
          /\ files' = [files EXCEPT !.invalid = AfterWrite(outcome, invalid_markers)]
          /\ IF outcome = "ok"
             THEN pc' = "done" /\ exc' = exc
             ELSE Abort("OSError", "pomagam_invalid.json")
    /\ UNCHANGED <<upstream, raw_markers, markers, idx, all_pois, invalid_markers,
                   verified_pois, cat_idx>>
    /\ UNCHANGED <<vars_diff, vars_tr>>

NextMain ==
    \/ Download
    \/ Remap
    \/ ParseMarker
    \/ FilterVerified
    \/ WriteAll
    \/ WriteCategory
    \/ WriteInvalid

----------------------------------------------------------------------------
(* main.py: diff_cache() *)

MaxPois == 2

Poi(id, name, description, phone) ==
    [f \in Fields |->
        CASE f = "id" -> Str(id)
          [] f = "category" -> CategoryStr(CATEGORIES["6"])
          [] f = "verified" -> Bool(TRUE)
          [] f = "lat" -> Float(Deg(52, 0))
          [] f = "lng" -> Float(Deg(21, 0))
          [] f = "name" -> Str(name)
          [] f = "description" -> description
          [] f = "phone" -> phone
          [] OTHER -> None]

\* verified pois as parse_pois builds them: the same id with another name,
\* another description, another phone; other ids
Pois ==
    { Poi(<<"1">>, <<"A">>, Str(<<"d">>), None),
      Poi(<<"1">>, <<"B">>, Str(<<"d">>), None),
      Poi(<<"1">>, <<"A">>, None, None),
      Poi(<<"1">>, <<"A">>, Str(<<"d">>), Str(<<"5">>)),
      Poi(<<"2">>, <<"A">>, Str(<<"d">>), None),
      Poi(<<"3">>, <<"C">>, None, None) }

EmptyDict == <<>>
\* d[key] = value
DictSet(d, key, value) ==
    [x \in (DOMAIN d) \cup {key} |-> IF x = key THEN value ELSE d[x]]
\* del d[key]
DictDel(d, key) == [x \in (DOMAIN d) \ {key} |-> d[x]]
\* d.update(other)
DictUpdate(d, other) ==
    [x \in (DOMAIN d) \cup (DOMAIN other) |-> IF x \in DOMAIN other THEN other[x] ELSE d[x]]

\* the key a poi is filed under: poi['id']
PoiId(poi) == poi["id"].s

is_modified(poi_new, poi_old) ==
    \/ poi_new["name"] # poi_old["name"]
    \/ poi_new["description"] # poi_old["description"]

EmptyDiff == [created |-> EmptyDict, modified |-> EmptyDict, deleted |-> EmptyDict]

RECURSIVE DiffLoop(_, _, _)
\* lines 170-179: the loop over pois, which deletes every matched id from the
\* working copy of the snapshot; the result is the diff and what is left of it
DiffLoop(pois, d, c) ==
    IF pois = <<>> THEN [diff |-> d, cache |-> c]
    ELSE LET poi == Head(pois)
             poi_id == PoiId(poi)
         IN  IF poi_id \notin DOMAIN c
             THEN DiffLoop(Tail(pois),
                           [d EXCEPT !.created = DictSet(d.created, poi_id, poi)], c)
             ELSE DiffLoop(Tail(pois),
                           IF is_modified(poi, c[poi_id])
                           THEN [d EXCEPT !.modified = DictSet(d.modified, poi_id, poi)]
                           ELSE d,
                           DictDel(c, poi_id))

\* lines 157-181: the diff of the pois against the loaded snapshot
DiffOf(pois, loaded) ==
    LET r == DiffLoop(pois, EmptyDiff, loaded)
    IN  [r.diff EXCEPT !.deleted = DictUpdate(r.diff.deleted, r.cache)]

RECURSIVE NewCache(_)
\* {poi['id']: poi for poi in pois}: the last poi of an id wins
NewCache(pois) ==
    IF pois = <<>> THEN EmptyDict
    ELSE DictSet(NewCache(SubSeq(pois, 1, Len(pois) - 1)),
                 PoiId(pois[Len(pois)]), pois[Len(pois)])

\* json.dump of one value of a poi
JsonValue(v) ==
    CASE v.k = "none" -> [j |-> "null", text |-> <<>>]
      [] v.k = "bool" -> [j |-> IF v.n = 1 THEN "true" ELSE "false", text |-> <<>>]
      [] v.k = "float" -> [j |-> "number", text |-> FloatStr(v.n)]
      [] v.k = "int" -> [j |-> "number", text |-> IntStr(v.n)]
      [] OTHER -> [j |-> "string", text |-> v.s]

\* json.load of one value
FromJson(x) ==
    CASE x.j = "null" -> None
      [] x.j = "true" -> Bool(TRUE)
      [] x.j = "false" -> Bool(FALSE)
      [] x.j = "number" ->
            IF \E i \in 1..Len(x.text) : x.text[i] = "."
            THEN Float(ParseFloatStr(x.text).n)
            ELSE PyInt(DigitsVal(x.text))
      [] OTHER -> Str(x.text)

\* json.dump(new_cache, f): the text of the snapshot file
JsonDump(d) == [id \in DOMAIN d |-> [f \in DOMAIN d[id] |-> JsonValue(d[id][f])]]
\* json.load(f)
JsonLoad(content) ==
    [id \in DOMAIN content |-> [f \in DOMAIN content[id] |-> FromJson(content[id][f])]]

NoFile == [st |-> "absent", content |-> EmptyDict]
\* opened with 'w': cut to nothing, or to the part json.dump wrote before it raised
CutFile == [st |-> "partial", content |-> EmptyDict]
JsonFile(content) == [st |-> "json", content |-> content]

\* lines 163-168: the snapshot as loaded; any failure to read gives {}
LoadCache(file) == IF file.st = "json" THEN JsonLoad(file.content) ELSE EmptyDict

InitDiff ==
    /\ cache_file = NoFile
    /\ pois_in = <<>>
    /\ same = FALSE
    /\ prev_wrote = "none"
    /\ cache = EmptyDict
    /\ diff = EmptyDiff
    /\ dpc = "idle"
    /\ wrote = "none"
    /\ prev_file = NoFile

\* a run begins: diff_cache is called with the verified pois of this run, the
\* same as in the run before or others
StartRun ==
    /\ dpc \in {"idle", "returned"}
    /\ \E pois \in SeqsUpTo(Pois, MaxPois) :
          /\ pois_in' = pois
          /\ same' = (dpc = "returned" /\ pois = pois_in)
    /\ prev_wrote' = wrote
    /\ prev_file' = cache_file
    /\ wrote' = "none"
    /\ cache' = EmptyDict
    /\ diff' = EmptyDiff
    /\ dpc' = "called"
    /\ UNCHANGED cache_file
    /\ UNCHANGED <<vars_main, vars_tr>>

\* lines 157-181
DiffCompute ==
    /\ dpc = "called"
    /\ cache' = LoadCache(cache_file)
    /\ diff' = DiffOf(pois_in, LoadCache(cache_file))
    /\ dpc' = "update"
    /\ UNCHANGED <<cache_file, pois_in, same, prev_wrote, wrote, prev_file>>
    /\ UNCHANGED <<vars_main, vars_tr>>

\* line 188: open(POMAGAM_CACHE_FILENAME, 'w'); an IOError is logged and dropped
OpenCache ==
    /\ dpc = "update"
    /\ \/ /\ cache_file' = CutFile
          /\ dpc' = "dump"
          /\ wrote' = wrote
       \/ /\ cache_file' = cache_file
          /\ dpc' = "returned"
          /\ wrote' = "open"
    /\ UNCHANGED <<pois_in, same, prev_wrote, cache, diff, prev_file>>
    /\ UNCHANGED <<vars_main, vars_tr>>

\* line 189: json.dump(new_cache, f); an IOError is logged and dropped
DumpCache ==
    /\ dpc = "dump"
    /\ \/ /\ cache_file' = JsonFile(JsonDump(NewCache(pois_in)))
          /\ wrote' = "ok"
       \/ /\ cache_file' = CutFile
          /\ wrote' = "dump"
    /\ dpc' = "returned"
    /\ UNCHANGED <<pois_in, same, prev_wrote, cache, diff, prev_file>>
    /\ UNCHANGED <<vars_main, vars_tr>>

NextDiff ==
    \/ StartRun
    \/ DiffCompute
    \/ OpenCache
    \/ DumpCache

----------------------------------------------------------------------------
(* main.py: filter_translation() and update_poi_translation() *)

MaxRows == 2

\* a row of the translation sheet: every cell is text
Row(id, name, name_pl) ==
    [c \in {"id", "name", "name:pl"} |->
        CASE c = "id" -> Str(id)
          [] c = "name" -> Str(name)
          [] c = "name:pl" -> Str(name_pl)]

Rows ==
    { Row(<<"1">>, <<"A">>, <<"x">>),
      Row(<<"1">>, <<>>, <<>>),
      Row(<<"2">>, <<"Z">>, <<"z">>),
      Row(<<"3">>, <<>>, <<>>),
      Row(<<"3">>, <<"C">>, <<"y">>) }

\* pois handed to the reconciliation: as parsed, or already carrying a translation
TrPois ==
    { Poi(<<"1">>, <<"A">>, Str(<<"d">>), None),
      Poi(<<"1">>, <<"B">>, Str(<<"d">>), None),
      Poi(<<"3">>, <<"C">>, None, None),
      DictSet(Poi(<<"3">>, <<"C">>, None, None), "name:pl", Str(<<"w">>)) }

\* the snapshot the diff is taken against: none, or the one of an earlier run
TrSnapshots ==
    { EmptyDict,
      NewCache(<<Poi(<<"1">>, <<"A">>, Str(<<"d">>), None),
                 Poi(<<"2">>, <<"A">>, Str(<<"d">>), None)>>) }

\* iterating a dict yields its keys
IterDict(d) == DOMAIN d

\* {poi['id'] for poi in items}, the items being the keys of a dict: a key is
\* a str, and a str cannot be subscripted with 'id'
IdsOfItems(items) ==
    IF items = {} THEN [st |-> "ok", ids |-> {}]
    ELSE [st |-> "TypeError", ids |-> {}]

filter_translation(translation_data, d) ==
    LET m == IdsOfItems(IterDict(d.modified))
        x == IdsOfItems(IterDict(d.deleted))
        ids == m.ids \cup x.ids
    IN  IF m.st # "ok" THEN [st |-> m.st, rows |-> <<>>]
        ELSE IF x.st # "ok" THEN [st |-> x.st, rows |-> <<>>]
        ELSE [st |-> "ok",
              rows |-> SelectSeq(translation_data, LAMBDA record : record["id"].s \notin ids)]

clean_record_keep_empty(record) == record

\* {k: v for k, v in record.items() if v}
clean_record(record) == [k \in {c \in DOMAIN record : ~Falsy(record[c])} |-> record[k]]

RECURSIVE TranslationOf(_)
\* {record['id']: clean_record(record) for record in translation_data}
TranslationOf(translation_data) ==
    IF translation_data = <<>> THEN EmptyDict
    ELSE LET record == translation_data[Len(translation_data)]
         IN  DictSet(TranslationOf(SubSeq(translation_data, 1, Len(translation_data) - 1)),
                     record["id"].s, clean_record(record))

\* lines 232-235: the pois after the update in place
update_poi_translation(pois, translation_data) ==
    LET translation == TranslationOf(translation_data)
    IN  [i \in 1..Len(pois) |->
            IF PoiId(pois[i]) \in DOMAIN translation
            THEN DictUpdate(pois[i], translation[PoiId(pois[i])])
            ELSE pois[i]]

InitTr ==
    /\ tr_pois \in SeqsUpTo(TrPois, MaxPois)
    /\ tr_cache \in TrSnapshots
    /\ tr_rows \in SeqsUpTo(Rows, MaxRows)
    /\ tr_diff = EmptyDiff
    /\ tr_filtered = <<>>
    /\ tr_before = <<>>
    /\ tpc = "start"

\* line 263: pois_diff = diff_cache(verified_pois)
TrDiff ==
    /\ tpc = "start"
    /\ tr_diff' = DiffOf(tr_pois, tr_cache)
    /\ tpc' = "diffed"
    /\ UNCHANGED <<tr_pois, tr_cache, tr_rows, tr_filtered, tr_before>>
    /\ UNCHANGED <<vars_main, vars_diff>>

\* lines 269-270: translation_data = filter_translation(tr.fetch(), pois_diff)
FilterTranslation ==
    /\ tpc = "diffed"
    /\ LET r == filter_translation(tr_rows, tr_diff)
       IN  /\ tr_filtered' = r.rows
           /\ tpc' = IF r.st = "ok" THEN "filtered" ELSE "raised"
    /\ UNCHANGED <<tr_pois, tr_cache, tr_rows, tr_diff, tr_before>>
    /\ UNCHANGED <<vars_main, vars_diff>>

\* line 272: update_poi_translation(verified_pois, translation_data)
UpdatePoiTranslation ==
    /\ tpc = "filtered"
    /\ tr_before' = tr_pois
    /\ tr_pois' = update_poi_translation(tr_pois, tr_filtered)
    /\ tpc' = "merged"
    /\ UNCHANGED <<tr_cache, tr_rows, tr_diff, tr_filtered>>
    /\ UNCHANGED <<vars_main, vars_diff>>

NextTr ==
    \/ TrDiff
    \/ FilterTranslation
    \/ UpdatePoiTranslation

----------------------------------------------------------------------------
(* the specifications *)

IdleMain ==
    /\ upstream = <<>>
    /\ raw_markers = <<>>
    /\ markers = <<>>
    /\ idx = 0
    /\ all_pois = <<>>
    /\ invalid_markers = <<>>
    /\ verified_pois = <<>>
    /\ files = NoFiles
    /\ cat_idx = 0
    /\ pc = "idle"
    /\ exc = NoExc

IdleTr ==
    /\ tr_pois = <<>>
    /\ tr_cache = EmptyDict
    /\ tr_rows = <<>>
    /\ tr_diff = EmptyDiff
    /\ tr_filtered = <<>>
    /\ tr_before = <<>>
    /\ tpc = "idle"

\* one run of main()
Init == InitMain /\ InitDiff /\ IdleTr
Spec == Init /\ [][NextMain]_vars

\* diff_cache() over successive runs
InitRuns == IdleMain /\ InitDiff /\ IdleTr
SpecDiff == InitRuns /\ [][NextDiff]_vars

\* the translation stage of a run
InitTranslation == IdleMain /\ InitDiff /\ InitTr
SpecTr == InitTranslation /\ [][NextTr]_vars

----------------------------------------------------------------------------
(* properties of one run of main(): Spec *)

ParseReturned == pc \in {"write_all", "write_category", "done"} \/
                 (pc = "aborted" /\ exc.at \notin {"download_markers",
                                                  "remap_filter_attributes", "parse_pois"})

\* the validators of a canonical record that fail, whatever they raise
FailingFields(marker) == {f \in Fields : FIELD_PARSER(f, marker[f]).st # "ok"}
HasFailure(marker) == FailingFields(marker) # {}
NoFailure(marker) == FailingFields(marker) = {}

\* C1: parse_pois returns for every list of canonical records, and then each
\* record is in exactly one output: with an error entry for every failing field
\* in the invalid list if a field fails, in the poi list otherwise, both lists
\* in input order.
C1_Partition ==
    /\ ~(pc = "aborted" /\ exc.at = "parse_pois")
    /\ ParseReturned =>
          LET bad == SelectSeq(markers, HasFailure)
              good == SelectSeq(markers, NoFailure)
          IN  /\ Len(invalid_markers) = Len(bad)
              /\ \A i \in 1..Len(bad) :
                    /\ invalid_markers[i][2] = bad[i]
                    /\ DOMAIN invalid_markers[i][1] = FailingFields(bad[i])
              /\ Len(all_pois) = Len(good)
              /\ \A i \in 1..Len(good) :
                    \A f \in Fields : all_pois[i][f] = FIELD_PARSER(f, good[i][f]).v

\* the raw attribute a canonical field is taken from
RawOf(raw_marker, f) ==
    CASE f = "id" -> raw_marker.id
      [] f = "category" -> raw_marker.categories
      [] f = "name" -> raw_marker.title
      [] f = "addr" -> raw_marker.address
      [] f = "lat" -> raw_marker.lat
      [] f = "lng" -> raw_marker.lng
      [] f = "description" -> raw_marker.description
      [] f = "website" -> raw_marker.link
      [] OTHER -> Absent

\* C5: no raw marker aborts assembly or validation: no exception escapes
\* remap_filter_attributes or parse_pois, and every attribute the raw marker
\* lacks is null in its canonical record.
C5_NoEscape ==
    /\ ~(pc = "aborted" /\ exc.at \in {"remap_filter_attributes", "parse_pois"})
    /\ \A i \in 1..Len(markers) :
          \A f \in {"id", "category", "name", "addr", "lat", "lng", "description", "website"} :
             RawOf(raw_markers[i], f) = Absent => markers[i][f] = None

\* whether one of the four outputs of a run is there in full
Emitted(output) ==
    CASE output = "all" -> files.all.st = "written"
      [] output = "category" ->
            \A c \in DOMAIN files.category : files.category[c].st = "written"
      [] output = "invalid" -> files.invalid.st = "written"
      [] output = "store" -> files.cache.st = "written" \/ files.sheet.st = "written"

OutputsEmitted == {output \in {"all", "category", "invalid", "store"} : Emitted(output)}

NothingTouched ==
    /\ files.all.st = "untouched"
    /\ \A c \in DOMAIN files.category : files.category[c].st = "untouched"
    /\ files.invalid.st = "untouched"
    /\ files.cache.st = "untouched"
    /\ files.sheet.st = "untouched"

Processed == SubSeq(markers, 1, IF idx = 0 THEN 0 ELSE idx - 1)
Rejected(marker) == \E j \in 1..Len(invalid_markers) : invalid_markers[j][2] = marker
Accepted(marker) == ~Rejected(marker)

\* C8: every poi parse_pois builds comes from a record whose category list is
\* empty (the poi has the default category) or holds one code of the
\* enumeration (the poi has its name), has a boolean verified, and a lat
\* strictly between 45 and 56 and a lng strictly between 12 and 30.
C8_PoiInvariants ==
    LET src == SelectSeq(Processed, Accepted)
    IN  /\ Len(src) = Len(all_pois)
        /\ \A i \in 1..Len(all_pois) :
              LET poi == all_pois[i]
                  m == src[i]
              IN  /\ poi["category"].k = "str"
                  /\ \E c \in 1..Len(CategoryOrder) :
                        poi["category"] = Str(<<CategoryOrder[c]>>)
                  /\ m["category"].k = "list" /\ Len(m["category"].l) <= 1
                  /\ Len(m["category"].l) = 0 => poi["category"] = Str(<<"charityDropOff">>)
                  /\ Len(m["category"].l) = 1 =>
                        /\ m["category"].l[1] \in {"1", "2", "3", "4", "5", "6", "7", "8", "9"}
                        /\ poi["category"] = Str(<<CATEGORIES[m["category"].l[1]]>>)
                  /\ poi["verified"].k = "bool"
                  /\ poi["lat"].k = "float"
                  /\ 45 * 10000 < poi["lat"].n /\ poi["lat"].n < 56 * 10000
                  /\ PyFloat(m["lat"]).n = poi["lat"].n
                  /\ poi["lng"].k = "float"
                  /\ 12 * 10000 < poi["lng"].n /\ poi["lng"].n < 30 * 10000
                  /\ PyFloat(m["lng"]).n = poi["lng"].n

\* parse_pois returned a poi of the default category and one whose lat is next
\* to the bound, and rejected a record whose lat is 45 for its lat
C8_Witness ==
    /\ pc = "write_all"
    /\ \E i \in 1..Len(all_pois) :
          /\ all_pois[i]["category"] = Str(<<"charityDropOff">>)
          /\ all_pois[i]["lat"] = Float(Deg(45, 1))
          /\ all_pois[i]["verified"] = Bool(FALSE)
    /\ \E j \in 1..Len(invalid_markers) :
          /\ invalid_markers[j][2]["lat"] = Float(Deg(45, 0))
          /\ DOMAIN invalid_markers[j][1] = {"lat"}

\* C9: the ids of the pois parse_pois builds are non-empty and no two pois
\* carry the same id.
C9_UniqueIds ==
    /\ \A i \in 1..Len(all_pois) : all_pois[i]["id"].k = "str" /\ all_pois[i]["id"].s # <<>>
    /\ \A i, j \in 1..Len(all_pois) : i # j => all_pois[i]["id"] # all_pois[j]["id"]

----------------------------------------------------------------------------
(* properties of diff_cache() over successive runs: SpecDiff *)

DiffDone == dpc \in {"update", "dump", "returned"}
CurrentIds == {PoiId(pois_in[i]) : i \in 1..Len(pois_in)}

\* C2: a current poi's id is in 'created' iff it is not in the loaded snapshot,
\* in 'modified' iff it is in the snapshot with another name or description, and
\* 'deleted' holds exactly the snapshot entries whose id no current poi has.
C2_Classification ==
    DiffDone =>
        /\ \A i \in 1..Len(pois_in) :
              LET poi == pois_in[i]
                  id == PoiId(poi)
              IN  /\ id \in DOMAIN diff.created <=> id \notin DOMAIN cache
                  /\ id \in DOMAIN diff.modified <=>
                        /\ id \in DOMAIN cache
                        /\ \/ poi["name"] # cache[id]["name"]
                           \/ poi["description"] # cache[id]["description"]
        /\ DOMAIN diff.created \cup DOMAIN diff.modified \subseteq CurrentIds
        /\ DOMAIN diff.deleted = (DOMAIN cache) \ CurrentIds
        /\ \A id \in DOMAIN diff.deleted : diff.deleted[id] = cache[id]

\* C3: a second run on the input of the run before, both having written their
\* snapshot, finds nothing created, modified or deleted, and the snapshot then
\* holds exactly the pois of the run, each under its id.
C3_Idempotent ==
    (dpc = "returned" /\ same /\ prev_wrote = "ok" /\ wrote = "ok") =>
        /\ diff = EmptyDiff
        /\ DOMAIN LoadCache(cache_file) = CurrentIds
        /\ \A i \in 1..Len(pois_in) : LoadCache(cache_file)[PoiId(pois_in[i])] = pois_in[i]

\* C6: when the write of the snapshot fails, in open() or in json.dump(),
\* diff_cache returns the diff and the snapshot the next run loads is the one
\* this run loaded.
C6_WriteFailureKeepsSnapshot ==
    (dpc = "returned" /\ wrote \in {"open", "dump"}) =>
        /\ diff = DiffOf(pois_in, cache)
        /\ LoadCache(cache_file) = LoadCache(prev_file)

----------------------------------------------------------------------------
(* properties of the translation stage: SpecTr *)

TrFiltered == tpc \in {"filtered", "raised", "merged"}

\* C4: filter_translation returns the rows whose id is neither a key of
\* diff.modified nor of diff.deleted, in their order.
C4_FilterByDiffKeys ==
    TrFiltered =>
        /\ tpc # "raised"
        /\ tr_filtered =
              SelectSeq(tr_rows, LAMBDA record :
                  record["id"].s \notin (DOMAIN tr_diff.modified) \cup (DOMAIN tr_diff.deleted))

\* what the update of `before` with `row` must give, attribute by attribute
MergedWith(before, after, row) ==
    /\ \A k \in DOMAIN row :
          IF Falsy(row[k])
          THEN IF k \in DOMAIN before
               THEN k \in DOMAIN after /\ after[k] = before[k]
               ELSE k \notin DOMAIN after
          ELSE k \in DOMAIN after /\ after[k] = row[k]

RowsOf(poi) == {j \in 1..Len(tr_filtered) : tr_filtered[j]["id"].s = PoiId(poi)}
LastRowOf(poi) == CHOOSE j \in RowsOf(poi) : \A h \in RowsOf(poi) : h <= j

\* no populated attribute of a poi is emptied or lost, and a poi without a row
\* is left as it was
NeverEmptied ==
    /\ Len(tr_pois) = Len(tr_before)
    /\ \A i \in 1..Len(tr_before) :
          /\ \A k \in DOMAIN tr_before[i] :
                /\ k \in DOMAIN tr_pois[i]
                /\ ~Falsy(tr_before[i][k]) => ~Falsy(tr_pois[i][k])
          /\ RowsOf(tr_before[i]) = {} => tr_pois[i] = tr_before[i]

\* C10 as stated: for every poi and every row of its id, an attribute empty in
\* the row keeps the poi's value and an attribute set in the row takes the
\* row's value; a poi without a row is unchanged.
C10_EveryRow ==
    tpc = "merged" =>
        /\ NeverEmptied
        /\ \A i \in 1..Len(tr_before) :
              \A j \in RowsOf(tr_before[i]) :
                 MergedWith(tr_before[i], tr_pois[i], tr_filtered[j])

\* C10 as amended: the same for every poi and the last row of its id (an
\* earlier row of the same id has no effect); an attribute no row names is
\* unchanged.
C10_LastRow ==
    tpc = "merged" =>
        /\ NeverEmptied
        /\ \A i \in 1..Len(tr_before) :
              RowsOf(tr_before[i]) # {} =>
                 LET row == tr_filtered[LastRowOf(tr_before[i])]
                 IN  /\ MergedWith(tr_before[i], tr_pois[i], row)
                     /\ DOMAIN tr_pois[i] \subseteq (DOMAIN tr_before[i]) \cup (DOMAIN row)
                     /\ \A k \in (DOMAIN tr_before[i]) \ (DOMAIN row) :
                           tr_pois[i][k] = tr_before[i][k]

\* a poi with a translated name was merged with a row whose cells are empty and
\* kept it, and another poi took a translation from its row
C10_Witness ==
    /\ tpc = "merged"
    /\ \E i \in 1..Len(tr_before) :
          /\ RowsOf(tr_before[i]) # {}
          /\ "name:pl" \in DOMAIN tr_before[i]
          /\ Falsy(tr_filtered[LastRowOf(tr_before[i])]["name:pl"])
          /\ tr_pois[i]["name:pl"] = Str(<<"w">>)
    /\ \E i \in 1..Len(tr_before) :
          /\ "name:pl" \notin DOMAIN tr_before[i]
          /\ "name:pl" \in DOMAIN tr_pois[i]
          /\ tr_pois[i]["name:pl"] = Str(<<"x">>)
====
